---- MODULE Spec2Model ----
(***************************************************************************)
(* The JSON-recovery and response-mapping pipeline of the three            *)
(* external-AI operations: calc_co2 (services/gemini_co2.py),              *)
(* daily_planner (services/daily_planner.py) and identify_food_image       *)
(* (services/food_image_classifier.py).                                    *)
(*                                                                         *)
(* Texts are TLA+ strings, read character by character with SubSeq.  A     *)
(* TLA+ string literal cannot hold the backquote character, so the         *)
(* backquote is written ^ throughout: "^^^json" is the opening code fence. *)
(*                                                                         *)
(* Python values are tagged records:                                       *)
(*   None   [t |-> "None"]            bool  [t |-> "bool", b |-> TRUE]     *)
(*   int    [t |-> "int", i |-> 5]    str   [t |-> "str", s |-> "abc"]     *)
(*   float  [t |-> "float", k |-> "fin", m |-> 35]   (m counts tenths, so  *)
(*          this is 3.5; k is "fin", "nan", "inf" or "-inf")               *)
(*   list   [t |-> "list", items |-> <<v1, ...>>]                          *)
(*   dict   [t |-> "dict", kv |-> << <<"key", v>>, ... >>]                 *)
(***************************************************************************)
EXTENDS Integers, Sequences, FiniteSets, TLC

\* ------------------------------------------------------------------ bounds

\* Largest finite float magnitude, in tenths (the model's sys.float_info.max).
FloatMax == 99999

\* Nesting depth at which the JSON scanner raises RecursionError (the model's
\* interpreter recursion limit).
RecursionLimit == 4

\* ------------------------------------------------------------ str methods

Ch(s, i) ==
    IF i >= 1 /\ i <= Len(s) THEN SubSeq(s, i, i) ELSE ""

\* The characters str.strip() removes.
IsSpace(c) ==
    c \in {" ", "\n", "\t", "\r"}

RECURSIVE LStripFrom(_, _)
LStripFrom(s, i) ==
    IF i <= Len(s) /\ IsSpace(Ch(s, i)) THEN LStripFrom(s, i + 1) ELSE i

RECURSIVE RStripFrom(_, _)
RStripFrom(s, j) ==
    IF j >= 1 /\ IsSpace(Ch(s, j)) THEN RStripFrom(s, j - 1) ELSE j

Slice(s, i, j) ==
    IF i > j THEN "" ELSE SubSeq(s, i, j)

\* str.strip()
Strip(s) ==
    Slice(s, LStripFrom(s, 1), RStripFrom(s, Len(s)))

\* str.startswith(prefix)
StartsWith(s, prefix) ==
    Len(s) >= Len(prefix) /\ SubSeq(s, 1, Len(prefix)) = prefix

\* Whether old occurs in s at index i.
OccursAt(s, old, i) ==
    i + Len(old) - 1 <= Len(s) /\ SubSeq(s, i, i + Len(old) - 1) = old

\* The first index from i on at which old occurs in s, or Len(s) + 1.
NextOccurrence(s, old, i) ==
    CHOOSE j \in i..(Len(s) + 1) :
        /\ j = Len(s) + 1 \/ OccursAt(s, old, j)
        /\ \A k \in i..(j - 1) : ~OccursAt(s, old, k)

\* str.replace(old, ""): every non-overlapping occurrence, left to right.
RECURSIVE RemoveFrom(_, _, _)
RemoveUpTo(s, old, i, j) ==
    IF j > Len(s) THEN Slice(s, i, Len(s))
    ELSE Slice(s, i, j - 1) \o RemoveFrom(s, old, j + Len(old))

RemoveFrom(s, old, i) ==
    RemoveUpTo(s, old, i, NextOccurrence(s, old, i))

RemoveAll(s, old) ==
    RemoveFrom(s, old, 1)

\* Whether old occurs anywhere in s.
Contains(s, old) ==
    \E i \in 1..Len(s) : OccursAt(s, old, i)

\* ------------------------------------------------------------ _clean_json

\* The body of _clean_json after the first strip.
CleanStripped(cleaned) ==
    IF StartsWith(cleaned, "^^^")
    THEN Strip(RemoveAll(RemoveAll(cleaned, "^^^json"), "^^^"))
    ELSE cleaned

\* _clean_json, the same in the three services.
CleanJson(text) ==
    CleanStripped(Strip(text))

\* ---------------------------------------------------------- Python values

PyNone == [t |-> "None"]
PyBool(b) == [t |-> "bool", b |-> b]
PyInt(i) == [t |-> "int", i |-> i]
PyFloat(k, m) == [t |-> "float", k |-> k, m |-> m]
Fin(m) == PyFloat("fin", m)
NaN == PyFloat("nan", 0)
PosInf == PyFloat("inf", 0)
NegInf == PyFloat("-inf", 0)
PyStr(s) == [t |-> "str", s |-> s]
PyList(items) == [t |-> "list", items |-> items]
PyDict(kv) == [t |-> "dict", kv |-> kv]

\* Python truthiness, as `x or y` and `if not x` use it.
Truthy(v) ==
    CASE v.t = "None" -> FALSE
      [] v.t = "bool" -> v.b
      [] v.t = "int" -> v.i # 0
      [] v.t = "float" -> ~(v.k = "fin" /\ v.m = 0)
      [] v.t = "str" -> v.s # ""
      [] v.t = "list" -> v.items # <<>>
      [] v.t = "dict" -> v.kv # <<>>

\* x or y
PyOr(a, b) ==
    IF Truthy(a) THEN a ELSE b

RECURSIVE KeyIndex(_, _, _)
KeyIndex(kv, key, n) ==
    IF n > Len(kv) THEN 0
    ELSE IF kv[n][1] = key THEN n
    ELSE KeyIndex(kv, key, n + 1)

HasKey(d, key) ==
    KeyIndex(d.kv, key, 1) # 0

ValueAt(kv, n, default) ==
    IF n = 0 THEN default ELSE kv[n][2]

\* dict.get(key, default); dict.get(key) is DictGet(d, key, PyNone).
DictGet(d, key, default) ==
    ValueAt(d.kv, KeyIndex(d.kv, key, 1), default)

PutAt(kv, n, key, v) ==
    IF n = 0 THEN Append(kv, <<key, v>>) ELSE [kv EXCEPT ![n] = <<key, v>>]

\* d[key] = v: a repeated key keeps its place and takes the last value.
DictSet(kv, key, v) ==
    PutAt(kv, KeyIndex(kv, key, 1), key, v)

\* ------------------------------------------------------------- numerals

IsDigit(c) ==
    c \in {"0", "1", "2", "3", "4", "5", "6", "7", "8", "9"}

DigitVal(c) ==
    CASE c = "0" -> 0 [] c = "1" -> 1 [] c = "2" -> 2 [] c = "3" -> 3
      [] c = "4" -> 4 [] c = "5" -> 5 [] c = "6" -> 6 [] c = "7" -> 7
      [] c = "8" -> 8 [] c = "9" -> 9

\* Every magnitude beyond the float range is held as Beyond.
Beyond == FloatMax + 1

Sat(n) ==
    IF n > Beyond THEN Beyond ELSE n

Signed(neg, n) ==
    IF neg THEN 0 - n ELSE n

\* Index after the run of digits that starts at i.
RECURSIVE DigitsEnd(_, _)
DigitsEnd(s, i) ==
    IF IsDigit(Ch(s, i)) THEN DigitsEnd(s, i + 1) ELSE i

\* Value of the digits s[i..j-1], saturating at Beyond.
RECURSIVE DigitsVal(_, _, _, _)
DigitsVal(s, i, j, acc) ==
    IF i >= j THEN acc
    ELSE DigitsVal(s, i + 1, j, Sat(acc * 10 + DigitVal(Ch(s, i))))

\* m * 10^e for a magnitude m in tenths, saturating at Beyond; a negative
\* exponent divides, dropping what is below a tenth.
RECURSIVE Scale10(_, _)
Scale10(m, e) ==
    IF m = 0 \/ e = 0 THEN m
    ELSE IF e > 0 THEN (IF m >= Beyond THEN Beyond ELSE Scale10(Sat(m * 10), e - 1))
    ELSE Scale10(m \div 10, e + 1)

\* The float of a magnitude in tenths: beyond the float range it is an
\* infinity, as float("1e999") is.
MagnitudeFloat(neg, m) ==
    IF m > FloatMax THEN (IF neg THEN NegInf ELSE PosInf) ELSE Fin(Signed(neg, m))

\* The float of a decimal numeral: integer digits s[i1..j1-1], fraction
\* digits s[i2..j2-1] (the first one is kept), exponent e.
DecimalFloat(s, neg, i1, j1, i2, j2, e) ==
    MagnitudeFloat(neg,
        Scale10(Sat(Sat(DigitsVal(s, i1, j1, 0) * 10)
                    + (IF i2 < j2 THEN DigitVal(Ch(s, i2)) ELSE 0)), e))

NoExp(i) == [ok |-> FALSE, e |-> 0, end |-> i]

ExpDigits(s, i, neg, d0, d1) ==
    IF d1 > d0
    THEN [ok |-> TRUE, e |-> Signed(neg, DigitsVal(s, d0, d1, 0)), end |-> d1]
    ELSE NoExp(i)

ExpFrom(s, i, neg, d0) ==
    ExpDigits(s, i, neg, d0, DigitsEnd(s, d0))

\* The exponent part [eE][-+]?\d+ at i, if one is there: [ok, e, end].
ScanExp(s, i) ==
    IF Ch(s, i) \in {"e", "E"}
    THEN ExpFrom(s, i, Ch(s, i + 1) = "-",
                 IF Ch(s, i + 1) \in {"+", "-"} THEN i + 2 ELSE i + 1)
    ELSE NoExp(i)

\* -------------------------------------------------------------- json.loads

Ok(val, pos) == [ok |-> TRUE, err |-> "", val |-> val, pos |-> pos]
Raise(err) == [ok |-> FALSE, err |-> err, val |-> PyNone, pos |-> 0]

\* The whitespace the JSON decoder skips.
IsJsonWs(c) ==
    c \in {" ", "\t", "\n", "\r"}

RECURSIVE SkipWs(_, _)
SkipWs(s, i) ==
    IF i <= Len(s) /\ IsJsonWs(Ch(s, i)) THEN SkipWs(s, i + 1) ELSE i

\* NUMBER_RE of json.scanner: (-?(?:0|[1-9]\d*))(\.\d+)?([eE][-+]?\d+)?
\* An integer numeral is a Python int of any magnitude; one with a fraction
\* or an exponent is a float.  i1..j1-1 are the integer digits, j2 the end
\* of the fraction (j1 when there is none), ex the exponent part.
JsonNumberOf(s, neg, i1, j1, j2, ex) ==
    IF j2 > j1 \/ ex.ok
    THEN Ok(DecimalFloat(s, neg, i1, j1, j1 + 1, j2, ex.e), ex.end)
    ELSE Ok(PyInt(Signed(neg, DigitsVal(s, i1, j1, 0))), j1)

JsonNumberFrac(s, neg, i1, j1, j2) ==
    JsonNumberOf(s, neg, i1, j1, j2, ScanExp(s, j2))

JsonNumberInt(s, neg, i1, j1) ==
    IF j1 = i1 THEN Raise("JSONDecodeError")
    ELSE JsonNumberFrac(s, neg, i1, j1,
            IF Ch(s, j1) = "." /\ IsDigit(Ch(s, j1 + 1)) THEN DigitsEnd(s, j1 + 1) ELSE j1)

JsonNumberFrom(s, neg, i1) ==
    JsonNumberInt(s, neg, i1, IF Ch(s, i1) = "0" THEN i1 + 1 ELSE DigitsEnd(s, i1))

ScanJsonNumber(s, i) ==
    JsonNumberFrom(s, Ch(s, i) = "-", IF Ch(s, i) = "-" THEN i + 1 ELSE i)

\* The index of the next quote, backslash or control character from i on, or
\* Len(s) + 1.
StringRunEnd(s, i) ==
    CHOOSE j \in i..(Len(s) + 1) :
        /\ j = Len(s) + 1 \/ Ch(s, j) \in {"\"", "\\", "\n", "\t", "\r", "\f"}
        /\ \A k \in i..(j - 1) : Ch(s, k) \notin {"\"", "\\", "\n", "\t", "\r", "\f"}

\* The character an escape stands for; "" for no escape of the alphabet.
Unescape(e) ==
    CASE e \in {"\"", "\\", "/"} -> e
      [] e = "n" -> "\n"
      [] e = "t" -> "\t"
      [] e = "r" -> "\r"
      [] e = "f" -> "\f"
      [] OTHER -> ""

\* py_scanstring, strict: from i, just after the opening quote.  The run up
\* to the next quote, backslash or control character (at j) is taken whole.
RECURSIVE ScanString(_, _, _)
ScanStringRun(s, j, run) ==
    IF j > Len(s) THEN Raise("JSONDecodeError")
    ELSE IF Ch(s, j) = "\"" THEN Ok(PyStr(run), j + 1)
    ELSE IF Ch(s, j) # "\\" \/ Unescape(Ch(s, j + 1)) = "" THEN Raise("JSONDecodeError")
    ELSE ScanString(s, j + 2, run \o Unescape(Ch(s, j + 1)))

ScanStringTo(s, i, acc, j) ==
    ScanStringRun(s, j, acc \o Slice(s, i, j - 1))

ScanString(s, i, acc) ==
    ScanStringTo(s, i, acc, StringRunEnd(s, i))

RECURSIVE ScanOnce(_, _, _)
RECURSIVE ScanMembers(_, _, _, _)
RECURSIVE ScanItems(_, _, _, _)

\* JSONObject, after a member: "}" ends the object, "," leads to the next.
MemberNext(s, depth, kv, n) ==
    IF Ch(s, n) = "}" THEN Ok(PyDict(kv), n + 1)
    ELSE IF Ch(s, n) = "," THEN ScanMembers(s, SkipWs(s, n + 1), depth, kv)
    ELSE Raise("JSONDecodeError")

MemberValue(s, depth, kv, key, v) ==
    IF ~v.ok THEN v
    ELSE MemberNext(s, depth, DictSet(kv, key, v.val), SkipWs(s, v.pos))

MemberColon(s, depth, kv, key, c) ==
    IF Ch(s, c) # ":" THEN Raise("JSONDecodeError")
    ELSE MemberValue(s, depth, kv, key, ScanOnce(s, SkipWs(s, c + 1), depth))

MemberKey(s, depth, kv, k) ==
    IF ~k.ok THEN k
    ELSE MemberColon(s, depth, kv, k.val.s, SkipWs(s, k.pos))

\* JSONObject: i is at the first key's opening quote.
ScanMembers(s, i, depth, kv) ==
    IF Ch(s, i) # "\"" THEN Raise("JSONDecodeError")
    ELSE MemberKey(s, depth, kv, ScanString(s, i + 1, ""))

\* JSONArray, after an item: "]" ends the array, "," leads to the next.
ItemNext(s, depth, items, n) ==
    IF Ch(s, n) = "]" THEN Ok(PyList(items), n + 1)
    ELSE IF Ch(s, n) = "," THEN ScanItems(s, SkipWs(s, n + 1), depth, items)
    ELSE Raise("JSONDecodeError")

ItemValue(s, depth, items, v) ==
    IF ~v.ok THEN v
    ELSE ItemNext(s, depth, Append(items, v.val), SkipWs(s, v.pos))

\* JSONArray: i is at the first character of an item.
ScanItems(s, i, depth, items) ==
    ItemValue(s, depth, items, ScanOnce(s, i, depth))

\* JSONObject, just after "{".
ScanObject(s, n, depth) ==
    IF Ch(s, n) = "}" THEN Ok(PyDict(<<>>), n + 1)
    ELSE ScanMembers(s, n, depth, <<>>)

\* JSONArray, just after "[".
ScanArray(s, n, depth) ==
    IF Ch(s, n) = "]" THEN Ok(PyList(<<>>), n + 1)
    ELSE ScanItems(s, n, depth, <<>>)

\* The constants and numbers of scan_once.
ScanAtom(s, i) ==
    IF OccursAt(s, "null", i) THEN Ok(PyNone, i + 4)
    ELSE IF OccursAt(s, "true", i) THEN Ok(PyBool(TRUE), i + 4)
    ELSE IF OccursAt(s, "false", i) THEN Ok(PyBool(FALSE), i + 5)
    ELSE IF IsDigit(Ch(s, i)) \/ (Ch(s, i) = "-" /\ IsDigit(Ch(s, i + 1)))
    THEN ScanJsonNumber(s, i)
    ELSE IF OccursAt(s, "NaN", i) THEN Ok(NaN, i + 3)
    ELSE IF OccursAt(s, "Infinity", i) THEN Ok(PosInf, i + 8)
    ELSE IF OccursAt(s, "-Infinity", i) THEN Ok(NegInf, i + 9)
    ELSE Raise("JSONDecodeError")

\* scan_once of json.scanner at index i, inside depth enclosing containers.
\* Entering a container deeper than the recursion limit raises
\* RecursionError, which is not a JSONDecodeError.
ScanOnce(s, i, depth) ==
    IF i > Len(s) THEN Raise("JSONDecodeError")
    ELSE IF Ch(s, i) = "\"" THEN ScanString(s, i + 1, "")
    ELSE IF Ch(s, i) \in {"{", "["} /\ depth >= RecursionLimit THEN Raise("RecursionError")
    ELSE IF Ch(s, i) = "{" THEN ScanObject(s, SkipWs(s, i + 1), depth + 1)
    ELSE IF Ch(s, i) = "[" THEN ScanArray(s, SkipWs(s, i + 1), depth + 1)
    ELSE ScanAtom(s, i)

\* The end of JSONDecoder.decode: nothing but whitespace may follow the value.
DecodeEnd(text, r) ==
    IF ~r.ok THEN r
    ELSE IF SkipWs(text, r.pos) # Len(text) + 1 THEN Raise("JSONDecodeError")
    ELSE r

\* json.loads(text): one value, whitespace around it, nothing after it.
JsonLoads(text) ==
    DecodeEnd(text, ScanOnce(text, SkipWs(text, 1), 0))

\* ------------------------------------------------------------ float(value)

Returned(val) == [ok |-> TRUE, exc |-> "", val |-> val]
Raised(exc) == [ok |-> FALSE, exc |-> exc, val |-> PyNone]

UpperCase == "ABCDEFGHIJKLMNOPQRSTUVWXYZ"
LowerCase == "abcdefghijklmnopqrstuvwxyz"

LowerCh(c) ==
    IF \E n \in 1..Len(UpperCase) : Ch(UpperCase, n) = c
    THEN Ch(LowerCase, CHOOSE n \in 1..Len(UpperCase) : Ch(UpperCase, n) = c)
    ELSE c

\* str.lower(), from index i on.
RECURSIVE LowerFrom(_, _)
LowerFrom(s, i) ==
    IF i > Len(s) THEN "" ELSE LowerCh(Ch(s, i)) \o LowerFrom(s, i + 1)

\* float(str) on a decimal numeral: integer digits s[i1..j1-1], fraction
\* digits s[i2..j2-1], exponent part ex; digits on at least one side of the
\* point, and nothing after the numeral.
FloatNumeral(s, neg, i1, j1, i2, j2, ex) ==
    IF (j1 > i1 \/ j2 > i2) /\ ex.end = Len(s) + 1
    THEN Returned(DecimalFloat(s, neg, i1, j1, i2, j2, ex.e))
    ELSE Raised("ValueError")

FloatFraction(s, neg, i1, j1, i2, j2) ==
    FloatNumeral(s, neg, i1, j1, i2, j2, ScanExp(s, j2))

FloatPoint(s, neg, i1, j1, i2) ==
    FloatFraction(s, neg, i1, j1, i2, DigitsEnd(s, i2))

FloatDigits(s, neg, i1, j1) ==
    FloatPoint(s, neg, i1, j1, IF Ch(s, j1) = "." THEN j1 + 1 ELSE j1)

FloatWord(s, neg, i1, word) ==
    IF word = "nan" THEN Returned(NaN)
    ELSE IF word \in {"inf", "infinity"} THEN Returned(IF neg THEN NegInf ELSE PosInf)
    ELSE FloatDigits(s, neg, i1, DigitsEnd(s, i1))

FloatSigned(s, neg, i1) ==
    FloatWord(s, neg, i1, LowerFrom(s, i1))

FloatStripped(s) ==
    FloatSigned(s, Ch(s, 1) = "-", IF Ch(s, 1) \in {"+", "-"} THEN 2 ELSE 1)

\* float(str): surrounding whitespace and a sign are allowed; then nan, inf
\* or infinity in any case, or a decimal numeral.  Anything else is
\* ValueError.
FloatOfStr(str) ==
    FloatStripped(Strip(str))

Magnitude(i) ==
    IF i < 0 THEN 0 - i ELSE i

\* float(int): an int beyond the float range raises OverflowError.
FloatOfInt(i) ==
    IF Magnitude(i) >= Beyond \/ Magnitude(i) * 10 > FloatMax THEN Raised("OverflowError")
    ELSE Returned(Fin(i * 10))

\* The builtin float(v).
PyFloatOf(v) ==
    CASE v.t = "float" -> Returned(v)
      [] v.t = "bool" -> Returned(Fin(IF v.b THEN 10 ELSE 0))
      [] v.t = "int" -> FloatOfInt(v.i)
      [] v.t = "str" -> FloatOfStr(v.s)
      [] OTHER -> Raised("TypeError")

\* a + b on floats.
Fadd(a, b) ==
    CASE a.k = "nan" \/ b.k = "nan" -> NaN
      [] a.k = "fin" /\ b.k = "fin" ->
            (IF a.m + b.m > FloatMax THEN PosInf
             ELSE IF a.m + b.m < 0 - FloatMax THEN NegInf
             ELSE Fin(a.m + b.m))
      [] a.k = "fin" -> b
      [] b.k = "fin" -> a
      [] a.k = b.k -> a
      [] OTHER -> NaN

IsFinite(f) ==
    f.k = "fin"

\* ------------------------------------------------------ pydantic fields

ValidFloatOf(r) ==
    IF r.ok THEN r ELSE Raised("ValidationError")

\* A `float` field, lax mode: a float, an int or bool (converted), or a
\* numeric string; NaN and the infinities are allowed (allow_inf_nan is not
\* switched off).
ValidFloat(v) ==
    IF v.t \in {"float", "bool", "int", "str"} THEN ValidFloatOf(PyFloatOf(v))
    ELSE Raised("ValidationError")

\* A `str` field: a str only.
ValidStr(v) ==
    v.t = "str"

\* An `Optional[str]` field.
ValidOptStr(v) ==
    v.t \in {"None", "str"}

\* An `Optional[List[str]]` field.
ValidOptStrList(v) ==
    \/ v.t = "None"
    \/ v.t = "list" /\ \A n \in 1..Len(v.items) : v.items[n].t = "str"

\* ------------------------------------------------------ request outcomes

\* What a stage hands on: a value, an HTTPException(status, detail), or an
\* exception nothing catches, which the framework answers with a bare 500.
Done(val) == [ok |-> TRUE, val |-> val, status |-> 200, detail |-> "", exc |-> ""]
HTTPException(status, detail) ==
    [ok |-> FALSE, val |-> PyNone, status |-> status, detail |-> detail, exc |-> "HTTPException"]
Unhandled(exc) ==
    [ok |-> FALSE, val |-> PyNone, status |-> 500, detail |-> "Internal Server Error", exc |-> exc]

\* ------------------------------------------------- calc_co2: validation

\* ActivityCo2Result.model_validate(item): id a str, co2 a float, description
\* an optional str.
ValidActivityResult(item) ==
    /\ item.t = "dict"
    /\ HasKey(item, "id") /\ ValidStr(DictGet(item, "id", PyNone))
    /\ HasKey(item, "co2") /\ ValidFloat(DictGet(item, "co2", PyNone)).ok
    /\ ValidOptStr(DictGet(item, "description", PyNone))

ActivityResult(item) ==
    [id |-> DictGet(item, "id", PyNone).s,
     co2 |-> ValidFloat(DictGet(item, "co2", PyNone)).val,
     description |-> DictGet(item, "description", PyNone)]

\* The activities of a CalcCo2Response: a list of valid ActivityCo2Result.
ValidActivities(acts) ==
    /\ acts.t = "list"
    /\ \A n \in 1..Len(acts.items) : ValidActivityResult(acts.items[n])

\* CalcCo2Response.model_validate(parsed), and the ValidationError handler
\* around it: the total is the value the model gave under "totalCo2".
CalcValidate(parsed) ==
    IF /\ parsed.t = "dict"
       /\ ValidActivities(DictGet(parsed, "activities", PyNone))
       /\ HasKey(parsed, "totalCo2")
       /\ ValidFloat(DictGet(parsed, "totalCo2", PyNone)).ok
    THEN Done([activities |-> [n \in 1..Len(DictGet(parsed, "activities", PyNone).items) |->
                                 ActivityResult(DictGet(parsed, "activities", PyNone).items[n])],
               totalCo2 |-> ValidFloat(DictGet(parsed, "totalCo2", PyNone)).val])
    ELSE HTTPException(502, "Gemini JSON schema mismatch")

\* ------------------------------------------------ daily_planner: mapping

\* The handler `except (TypeError, ValueError): return 0.0` around float():
\* any other exception leaves it.
FloatOrZero(r) ==
    IF r.ok THEN r
    ELSE IF r.exc \in {"TypeError", "ValueError"} THEN Returned(Fin(0))
    ELSE r

\* _to_float(val)
ToFloat(val) ==
    FloatOrZero(PyFloatOf(val))

\* item.get(key): a value that is not a dict has no get.
CanGet(item) ==
    item.t = "dict"

Get(item, key) ==
    DictGet(item, key, PyNone)

\* The first of the values of a sequence that raised, as the exception that
\* leaves the handler; "" when none did.
RECURSIVE FirstRaised(_, _)
FirstRaised(rs, n) ==
    IF n > Len(rs) THEN ""
    ELSE IF ~rs[n].ok THEN rs[n].exc
    ELSE FirstRaised(rs, n + 1)

\* The data dict of an analysis entry, its floats as _to_float left them.
ActivityData(item) ==
    [original |-> PyOr(PyOr(Get(item, "original"), Get(item, "activity")), PyStr("")),
     current_co2 |-> ToFloat(Get(item, "current_co2")),
     alternative |-> PyOr(PyOr(Get(item, "alternative"), Get(item, "recommended")), PyStr("")),
     alternative_co2 |-> ToFloat(Get(item, "alternative_co2")),
     reduced |-> ToFloat(Get(item, "reduced"))]

\* DailyPlannerEntry.model_validate(data), and the handler around it.
ValidateActivity(data, raised) ==
    IF raised # "" THEN Unhandled(raised)
    ELSE IF ~(ValidStr(data.original) /\ ValidStr(data.alternative))
    THEN HTTPException(502, "Gemini JSON schema mismatch")
    ELSE Done([original |-> data.original.s,
               current_co2 |-> data.current_co2.val,
               alternative |-> data.alternative.s,
               alternative_co2 |-> data.alternative_co2.val,
               reduced |-> data.reduced.val])

ActivityEntry(data) ==
    ValidateActivity(data,
        FirstRaised(<<data.current_co2, data.alternative_co2, data.reduced>>, 1))

\* One entry of "analysis".
MapActivity(item) ==
    IF ~CanGet(item) THEN Unhandled("AttributeError")
    ELSE ActivityEntry(ActivityData(item))

\* The travel data dict with the empty string as the default of every text
\* field, current_mode too.
TravelDataEmptyMode(item) ==
    [origin |-> PyOr(Get(item, "origin"), PyStr("")),
     destination |-> PyOr(Get(item, "destination"), PyStr("")),
     distance_km |-> ToFloat(Get(item, "distance_km")),
     current_mode |-> PyOr(PyOr(Get(item, "current_mode"), Get(item, "mode")), PyStr("")),
     current_co2 |-> ToFloat(Get(item, "current_co2")),
     recommended_mode |-> PyOr(PyOr(Get(item, "recommended_mode"), Get(item, "mode")), PyStr("")),
     recommended_co2 |-> ToFloat(Get(item, "recommended_co2")),
     reduced |-> ToFloat(Get(item, "reduced"))]

\* The data dict of a travel_analysis entry.
TravelData(item) ==
    [origin |-> PyOr(Get(item, "origin"), PyStr("")),
     destination |-> PyOr(Get(item, "destination"), PyStr("")),
     distance_km |-> ToFloat(Get(item, "distance_km")),
     current_mode |-> PyOr(PyOr(Get(item, "current_mode"), Get(item, "mode")), PyStr("car")),
     current_co2 |-> ToFloat(Get(item, "current_co2")),
     recommended_mode |-> PyOr(PyOr(Get(item, "recommended_mode"), Get(item, "mode")), PyStr("")),
     recommended_co2 |-> ToFloat(Get(item, "recommended_co2")),
     reduced |-> ToFloat(Get(item, "reduced"))]

\* TravelAnalysisEntry.model_validate(data), and the handler around it.
ValidateTravel(data, raised) ==
    IF raised # "" THEN Unhandled(raised)
    ELSE IF ~(/\ ValidStr(data.origin) /\ ValidStr(data.destination)
              /\ ValidStr(data.current_mode) /\ ValidStr(data.recommended_mode))
    THEN HTTPException(502, "Gemini JSON schema mismatch")
    ELSE Done([origin |-> data.origin.s,
               destination |-> data.destination.s,
               distance_km |-> data.distance_km.val,
               current_mode |-> data.current_mode.s,
               current_co2 |-> data.current_co2.val,
               recommended_mode |-> data.recommended_mode.s,
               recommended_co2 |-> data.recommended_co2.val,
               reduced |-> data.reduced.val])

TravelEntry(data) ==
    ValidateTravel(data,
        FirstRaised(<<data.distance_km, data.current_co2, data.recommended_co2,
                      data.reduced>>, 1))

\* One entry of "travel_analysis".
MapTravel(item) ==
    IF ~CanGet(item) THEN Unhandled("AttributeError")
    ELSE TravelEntry(TravelData(item))

\* The characters of a str, each a str, as iterating it gives them.
StrItems(s) ==
    [n \in 1..Len(s) |-> PyStr(Ch(s, n))]

\* `for item in raw`: a list gives its items, a dict its keys, a str its
\* characters; a number or a bool is not iterable.
IterItems(raw) ==
    CASE raw.t = "list" -> Done(raw.items)
      [] raw.t = "dict" -> Done([n \in 1..Len(raw.kv) |-> PyStr(raw.kv[n][1])])
      [] raw.t = "str" -> Done(StrItems(raw.s))
      [] OTHER -> Unhandled("TypeError")

\* The loop over the analysis entries, from entry n on: the first entry that
\* fails ends the request.
RECURSIVE MapActivities(_, _, _)
AppendActivity(items, n, activities, entry) ==
    IF ~entry.ok THEN entry
    ELSE MapActivities(items, n + 1, Append(activities, entry.val))

MapActivities(items, n, activities) ==
    IF n > Len(items) THEN Done(activities)
    ELSE AppendActivity(items, n, activities, MapActivity(items[n]))

\* The loop over the travel entries.
RECURSIVE MapTravels(_, _, _)
AppendTravel(items, n, travels, entry) ==
    IF ~entry.ok THEN entry
    ELSE MapTravels(items, n + 1, Append(travels, entry.val))

MapTravels(items, n, travels) ==
    IF n > Len(items) THEN Done(travels)
    ELSE AppendTravel(items, n, travels, MapTravel(items[n]))

ActivityLoop(iter) ==
    IF ~iter.ok THEN iter ELSE MapActivities(iter.val, 1, <<>>)

TravelLoop(iter) ==
    IF ~iter.ok THEN iter ELSE MapTravels(iter.val, 1, <<>>)

EntriesOf(activities, travels) ==
    IF ~travels.ok THEN travels
    ELSE Done([activities |-> activities.val, travels |-> travels.val])

\* The travel loop starts once the activity loop has run to its end.
AfterActivities(parsed, activities) ==
    IF ~activities.ok THEN activities
    ELSE EntriesOf(activities,
            TravelLoop(IterItems(PyOr(Get(parsed, "travel_analysis"), PyList(<<>>)))))

\* _map_entries(parsed)
MapEntries(parsed) ==
    IF ~CanGet(parsed) THEN Unhandled("AttributeError")
    ELSE AfterActivities(parsed,
            ActivityLoop(IterItems(PyOr(Get(parsed, "analysis"), PyList(<<>>)))))

\* summary += float(e.reduced) over entries n.. of a list.
RECURSIVE SumReduced(_, _, _)
SumReduced(entries, n, summary) ==
    IF n > Len(entries) THEN summary
    ELSE SumReduced(entries, n + 1, Fadd(summary, entries[n].reduced))

\* _compute_summary with its second loop lost: the travels are not added.
SummedActivitiesOnly(activities, travels) ==
    SumReduced(activities, 1, Fin(0))

\* The sum _compute_summary falls back to: activities first, then travels.
SummedReduction(activities, travels) ==
    SumReduced(travels, 1, SumReduced(activities, 1, Fin(0)))

\* float(parsed["summary_reduction"]) and the handler around it, which
\* passes on TypeError and ValueError.
GivenSummary(f, activities, travels) ==
    IF f.ok THEN f
    ELSE IF f.exc \in {"TypeError", "ValueError"}
    THEN Returned(SummedReduction(activities, travels))
    ELSE f

SummaryFrom(given, activities, travels) ==
    IF given.t # "None" THEN GivenSummary(PyFloatOf(given), activities, travels)
    ELSE Returned(SummedReduction(activities, travels))

\* _compute_summary(parsed, activities, travels)
ComputeSummary(parsed, activities, travels) ==
    SummaryFrom(Get(parsed, "summary_reduction"), activities, travels)

\* The DailyPlannerResponse, whose three fields are valid by construction.
PlannerResponse(entries, summary) ==
    IF ~summary.ok THEN Unhandled(summary.exc)
    ELSE Done([analysis |-> entries.activities,
               travel_analysis |-> entries.travels,
               summary_reduction |-> summary.val])

PlannerSummary(parsed, mapped) ==
    IF ~mapped.ok THEN mapped
    ELSE PlannerResponse(mapped.val,
            ComputeSummary(parsed, mapped.val.activities, mapped.val.travels))

\* analyze, after the JSON is parsed: _map_entries, _compute_summary, then the
\* response.
PlannerRespond(parsed) ==
    PlannerSummary(parsed, MapEntries(parsed))

\* ------------------------------------------- identify_food_image: mapping

DigitCh(d) ==
    Ch("0123456789", d + 1)

\* The decimal numeral of a natural number.
RECURSIVE NatStr(_)
NatStr(n) ==
    IF n < 10 THEN DigitCh(n) ELSE NatStr(n \div 10) \o DigitCh(n % 10)

IntStr(i) ==
    IF i < 0 THEN "-" \o NatStr(0 - i) ELSE NatStr(i)

FloatStr(f) ==
    CASE f.k = "nan" -> "nan"
      [] f.k = "inf" -> "inf"
      [] f.k = "-inf" -> "-inf"
      [] f.m < 0 -> "-" \o NatStr((0 - f.m) \div 10) \o "." \o DigitCh((0 - f.m) % 10)
      [] OTHER -> NatStr(f.m \div 10) \o "." \o DigitCh(f.m % 10)

\* repr(v), as str() of a dict or a number shows it.
RECURSIVE PyRepr(_)
RECURSIVE ReprKv(_, _)
ReprKv(kv, n) ==
    IF n > Len(kv) THEN ""
    ELSE (IF n > 1 THEN ", " ELSE "") \o "'" \o kv[n][1] \o "': " \o PyRepr(kv[n][2])
         \o ReprKv(kv, n + 1)

RECURSIVE ReprItems(_, _)
ReprItems(items, n) ==
    IF n > Len(items) THEN ""
    ELSE (IF n > 1 THEN ", " ELSE "") \o PyRepr(items[n]) \o ReprItems(items, n + 1)

PyRepr(v) ==
    CASE v.t = "None" -> "None"
      [] v.t = "bool" -> (IF v.b THEN "True" ELSE "False")
      [] v.t = "int" -> IntStr(v.i)
      [] v.t = "float" -> FloatStr(v)
      [] v.t = "str" -> "'" \o v.s \o "'"
      [] v.t = "list" -> "[" \o ReprItems(v.items, 1) \o "]"
      [] v.t = "dict" -> "{" \o ReprKv(v.kv, 1) \o "}"

\* str(v)
PyStrOf(v) ==
    IF v.t = "str" THEN v.s ELSE PyRepr(v)

\* settings.gemini_vision_model, as from_env sets it when the environment
\* names none.
VisionModelName == "gemini-1.5-pro-vision"

\* The confidence of _map_to_response: float(parsed.get("confidence", 0)),
\* with TypeError and ValueError turned into 0.0.
FoodConfidence(parsed) ==
    FloatOrZero(PyFloatOf(DictGet(parsed, "confidence", PyInt(0))))

\* tags, made a one-item list of its str() when it is neither None nor a list.
FoodTags(tags) ==
    IF tags.t \notin {"None", "list"} THEN PyList(<<PyStr(PyStrOf(tags))>>) ELSE tags

\* item_data of _map_to_response, the confidence as the conversion left it.
ItemData(parsed, name) ==
    [name |-> name,
     tags |-> FoodTags(Get(parsed, "tags")),
     confidence |-> FoodConfidence(parsed),
     explanation |-> PyOr(Get(parsed, "explanation"), Get(parsed, "reasoning")),
     sourceModel |-> VisionModelName]

\* IdentifiedFood.model_validate(item_data), FoodImageResponse(item=item), and
\* the handler around them.
ValidateFood(data) ==
    IF ~data.confidence.ok THEN Unhandled(data.confidence.exc)
    ELSE IF ~(/\ ValidStr(data.name) /\ ValidOptStrList(data.tags)
              /\ ValidOptStr(data.explanation))
    THEN HTTPException(502, "Invalid Gemini Vision response format")
    ELSE Done([item |-> [name |-> data.name.s,
                         tags |-> data.tags,
                         confidence |-> data.confidence.val,
                         explanation |-> data.explanation,
                         sourceModel |-> data.sourceModel]])

FoodNamed(parsed, name) ==
    IF ~Truthy(name) THEN HTTPException(502, "Gemini Vision response missing 'name'")
    ELSE ValidateFood(ItemData(parsed, name))

\* _map_to_response(parsed)
MapToResponse(parsed) ==
    IF ~CanGet(parsed) THEN Unhandled("AttributeError")
    ELSE FoodNamed(parsed, PyOr(Get(parsed, "name"), Get(parsed, "food")))

\* --------------------------------------------------------- image fetching

\* The part of s before the first ";" (split(";")[0]).
RECURSIVE BeforeSemicolon(_, _)
BeforeSemicolon(s, i) ==
    IF i > Len(s) \/ Ch(s, i) = ";" THEN Slice(s, 1, i - 1)
    ELSE BeforeSemicolon(s, i + 1)

\* What the GET of the image URL can come to: the client raising (a bad URL,
\* a refused connection, the 15 s timeout), or a response with a status, a
\* content-type header ("" when there is none) and a body.
HttpReplies ==
    [raises : {FALSE},
     status_code : {200, 404},
     content_type : {"image/png", "image/jpeg; charset=binary", "text/html", ""},
     content : {"", "bytes"}]
    \cup {[raises |-> TRUE, status_code |-> 0, content_type |-> "", content |-> ""]}

\* _fetch_image, once the response is there and its status is below 400.
FetchedImage(reply, content_type) ==
    IF ~StartsWith(content_type, "image/") THEN HTTPException(400, "URL is not an image")
    ELSE IF reply.content = "" THEN HTTPException(400, "Empty image content")
    ELSE Done([data |-> reply.content,
               mime_type |-> IF content_type # "" THEN content_type ELSE "image/jpeg"])

\* _fetch_image reporting a download that raised as a gateway failure, and
\* passing on an error status.
FetchImageUpstream(image_url, reply) ==
    IF image_url = "" THEN HTTPException(400, "imageUrl is required")
    ELSE IF reply.raises THEN HTTPException(502, "Failed to download image from URL")
    ELSE FetchedImage(reply, Strip(BeforeSemicolon(reply.content_type, 1)))

\* _fetch_image(image_url), given what the GET comes to.
FetchImage(image_url, reply) ==
    IF image_url = "" THEN HTTPException(400, "imageUrl is required")
    ELSE IF reply.raises THEN HTTPException(400, "Failed to download image from URL")
    ELSE IF reply.status_code >= 400 THEN HTTPException(400, "Image URL returned error")
    ELSE FetchedImage(reply, Strip(BeforeSemicolon(reply.content_type, 1)))

\* ------------------------------------------------------------ _get_model

\* _get_model, the same in the three services: the key check, then the
\* client set-up, which may raise.
GetModel(key, initRaises, initDetail) ==
    IF ~Truthy(key) THEN HTTPException(500, "GEMINI_API_KEY is not configured")
    ELSE IF initRaises THEN HTTPException(500, initDetail)
    ELSE Done(PyNone)

\* ---------------------------------------------------------- _extract_text

\* _extract_text(response): response.text, or a 502 when reading it raises.
ExtractText(reply, detail) ==
    IF reply.textRaises THEN HTTPException(502, detail)
    ELSE Done(reply.text)

\* ---------------------------------------------------- parsing, per service

\* The handler around json.loads(clean): `except json.JSONDecodeError` alone.
LoadedOrInvalid(r, detail) ==
    IF r.ok THEN Done(r.val)
    ELSE IF r.err = "JSONDecodeError" THEN HTTPException(502, detail)
    ELSE Unhandled(r.err)

\* estimate_with_gemini and classify_image: clean, then json.loads once.
ParseCleaned(text, detail) ==
    LoadedOrInvalid(JsonLoads(CleanJson(text)), detail)

\* The second attempt of _parse_response, and the 502 when it fails too.
SecondAttempt(second) ==
    IF second.ok THEN Done(second.val)
    ELSE HTTPException(502, "Gemini returned invalid JSON")

\* The attempts of _parse_response, any exception of an attempt caught.
Attempts(first, text) ==
    IF first.ok THEN Done(first.val)
    ELSE SecondAttempt(JsonLoads(CleanJson(text)))

\* DailyPlannerService._parse_response: the raw text, then the cleaned text.
ParseResponse(text) ==
    Attempts(JsonLoads(text), text)

\* ------------------------------------------------------- the model's texts

\* Most activities a calc_co2 or daily_planner request carries.
MaxActivities == 1

\* Most model calls of one request the model follows.
MaxCalls == 2

Ops == {"calc_co2", "daily_planner", "identify_food_image"}

\* settings.gemini_api_key: unset, empty, or a key.
ApiKeys == {PyNone, PyStr(""), PyStr("key")}

\* The request bodies, past the framework's own validation of them.
Payloads(o) ==
    IF o = "identify_food_image"
    THEN {[imageUrl |-> u] : u \in {"", "https://example.com/food.png"}}
    ELSE {[activities |-> n] : n \in 0..MaxActivities}

\* JSON documents a model may answer calc_co2 with.
CalcDocs ==
    {"{\"activities\":[{\"id\":\"a\",\"co2\":1.5,\"description\":\"x\"},{\"id\":\"b\",\"co2\":2}],\"totalCo2\":3.5}",
     "{\"activities\":[{\"id\":\"a\",\"co2\":1.5},{\"id\":\"b\",\"co2\":\"2\"}]}",
     "{\"activities\":[{\"id\":\"a\",\"co2\":1.5}],\"totalCo2\":9}",
     "{\"activities\":[],\"totalCo2\":0}",
     "{\"activities\":[{\"id\":\"a\",\"co2\":NaN}],\"totalCo2\":1}",
     "{\"activities\":[{\"id\":\"a\",\"co2\":1}],\"totalCo2\":\"inf\"}",
     "{\"activities\":[{\"id\":\"a\",\"co2\":1,\"description\":\"run ^^^ls^^^ now\"}],\"totalCo2\":1}",
     "{\"activities\":[{\"id\":7,\"co2\":1}],\"totalCo2\":1}",
     "{\"activities\":[{\"id\":\"a\"}],\"totalCo2\":1}",
     "{\"activities\":[3],\"totalCo2\":1}",
     "[1]"}

\* JSON documents a model may answer daily_planner with.
PlannerDocs ==
    {"{\"analysis\":[{\"original\":\"car\",\"current_co2\":2.0,\"alternative\":\"bus\",\"alternative_co2\":1.0,\"reduced\":1.0},{\"activity\":\"beef\",\"current_co2\":\"5\",\"recommended\":\"tofu\",\"reduced\":2}],\"travel_analysis\":[{\"origin\":\"A\",\"destination\":\"B\",\"distance_km\":3,\"mode\":\"car\",\"reduced\":0.5}]}",
     "{\"analysis\":[{\"original\":\"car\",\"reduced\":1.0}],\"travel_analysis\":[{\"reduced\":0.5}],\"summary_reduction\":9}",
     "{\"analysis\":[{\"original\":\"car\",\"reduced\":1.0}],\"summary_reduction\":null}",
     "{\"analysis\":[{\"original\":\"car\",\"reduced\":1.0}],\"summary_reduction\":\"n/a\"}",
     "{\"analysis\":[{\"original\":\"car\",\"reduced\":1.0}],\"summary_reduction\":\"2.5\"}",
     "{\"analysis\":[{\"original\":\"car\",\"reduced\":1.0}],\"summary_reduction\":[2]}",
     "{\"analysis\":[{\"original\":\"car\",\"reduced\":1.0}],\"summary_reduction\":0}",
     "{\"analysis\":[{\"original\":\"car\",\"reduced\":1.0}],\"summary_reduction\":123456789012}",
     "{\"analysis\":[{\"original\":\"car\",\"current_co2\":null,\"alternative_co2\":true,\"reduced\":\"-\"}],\"travel_analysis\":[{\"distance_km\":[1],\"current_co2\":{},\"reduced\":\"1.5\"}]}",
     "{\"analysis\":[{\"original\":\"car\",\"reduced\":123456789012}]}",
     "{\"travel_analysis\":[{\"distance_km\":123456789012}]}",
     "{\"analysis\":[{\"original\":\"car\",\"reduced\":NaN}]}",
     "{\"analysis\":[{\"original\":\"car\",\"reduced\":\"inf\"},{\"original\":\"bus\",\"reduced\":\"-inf\"}]}",
     "{\"analysis\":[{\"original\":\"say ^^^json\",\"reduced\":1}]}",
     "{\"analysis\":[{\"original\":5,\"reduced\":1}]}",
     "{\"travel_analysis\":[{\"origin\":[1]}]}",
     "{\"analysis\":[1]}",
     "{\"travel_analysis\":[\"walk\"]}",
     "{\"analysis\":7}",
     "{}",
     "[]",
     "\"none\""}

\* JSON documents a model may answer identify_food_image with.
FoodDocs ==
    {"{\"name\":\"rice\",\"confidence\":0.9}",
     "{\"food\":\"rice\",\"tags\":\"thai\",\"confidence\":\"high\",\"reasoning\":\"looks\"}",
     "{\"name\":\"rice\",\"tags\":[\"thai\",\"fried\"],\"confidence\":1,\"explanation\":\"grains\"}",
     "{\"name\":\"rice\",\"confidence\":null}",
     "{\"name\":\"rice\",\"confidence\":[0.9]}",
     "{\"name\":\"rice\",\"confidence\":1e999}",
     "{\"name\":\"rice\",\"confidence\":\"nan\"}",
     "{\"name\":\"rice\",\"confidence\":123456789012}",
     "{\"name\":\"a^^^b\",\"confidence\":0.5}",
     "{\"confidence\":1}",
     "{\"name\":5}",
     "{\"name\":\"rice\",\"tags\":[1]}",
     "{\"name\":\"rice\",\"explanation\":7}",
     "[1]",
     "3"}

\* Texts that are no JSON document.
BadTexts ==
    {"", "Sorry, I cannot help.", "{\"activities\":[", "{name: rice}", "[[[[[[", "[[[[[[1]]]]]]"}

Docs(o) ==
    CASE o = "calc_co2" -> CalcDocs
      [] o = "daily_planner" -> PlannerDocs
      [] o = "identify_food_image" -> FoodDocs

\* How a model wraps what it answers.
Fences == {"none", "json", "plain"}

\* The text of an answer: the document alone, or inside a code fence.
Wrap(fence, doc) ==
    CASE fence = "json" -> "^^^json\n" \o doc \o "\n^^^"
      [] fence = "plain" -> "^^^\n" \o doc \o "\n^^^\n"
      [] OTHER -> doc

\* What model.generate_content can come to: raising, a response whose .text
\* raises (a blocked or empty completion), or a response with a text.
ModelReplies(o) ==
    {[raises |-> TRUE, textRaises |-> FALSE, doc |-> "", fence |-> "none", text |-> ""],
     [raises |-> FALSE, textRaises |-> TRUE, doc |-> "", fence |-> "none", text |-> ""]}
    \cup {[raises |-> FALSE, textRaises |-> FALSE, doc |-> d, fence |-> f, text |-> Wrap(f, d)] :
            d \in Docs(o) \cup BadTexts, f \in Fences}

\* ------------------------------------------------------------- the request

VARIABLES
    op,          \* the operation requested
    api_key,     \* settings.gemini_api_key
    payload,     \* the request body
    stage,       \* where the request is
    failedAt,    \* the stage a failed request failed in
    fetches,     \* GETs of the image URL made
    modelCalls,  \* calls of model.generate_content made
    image,       \* what _fetch_image returned
    response,    \* what generate_content returned
    raw_text,    \* the text of the response
    parsed,      \* the parsed JSON
    result,      \* what the caller gets
    configured,  \* the key genai.configure set last, process-wide, and who set it
    requests     \* the requests in flight together, when several are followed

vars == <<op, api_key, payload, stage, failedAt, fetches, modelCalls, image, response,
          raw_text, parsed, result, configured, requests>>

Pending == [ok |-> FALSE, val |-> PyNone, status |-> 0, detail |-> "", exc |-> ""]
NoImage == [data |-> "", mime_type |-> ""]
NoResponse == [raises |-> FALSE, textRaises |-> FALSE, doc |-> "", fence |-> "none", text |-> ""]
NotConfigured == [key |-> PyNone, by |-> 0]

\* genai.configure(api_key=key), called by request `by` once the key check of
\* _get_model has passed: the library keeps the key process-wide.
ConfiguredBy(key, by, before) ==
    IF Truthy(key) THEN [key |-> key, by |-> by] ELSE before

Init ==
    /\ op \in Ops
    /\ api_key \in ApiKeys
    /\ payload \in Payloads(op)
    /\ stage = "START"
    /\ failedAt = ""
    /\ fetches = 0
    /\ modelCalls = 0
    /\ image = NoImage
    /\ response = NoResponse
    /\ raw_text = ""
    /\ parsed = PyNone
    /\ result = Pending
    /\ configured = NotConfigured
    /\ requests = <<>>

\* The stage a request's configuration check runs from: classify_image
\* fetches the image before it calls _get_model.
ConfigStage(o) ==
    IF o = "identify_food_image" THEN "IMAGE_FETCHED" ELSE "START"

\* A handler that tries the call again instead of raising.
CallAgainAfterRaised(o) ==
    "CONFIGURED"

\* The stage after a model call that raised: the handler raises the 502.
AfterCallRaised(o) ==
    "FAILED"

InitFailedDetail(o) ==
    IF o = "identify_food_image" THEN "Failed to initialize Gemini Vision"
    ELSE "Failed to initialize Gemini client"

ContactFailedDetail(o) ==
    IF o = "identify_food_image" THEN "Failed to contact Gemini Vision"
    ELSE "Failed to contact Gemini"

TextFailedDetail(o) ==
    IF o = "identify_food_image" THEN "Failed to parse Gemini Vision response"
    ELSE "Failed to parse Gemini response"

InvalidJsonDetail(o) ==
    IF o = "identify_food_image" THEN "Gemini Vision returned invalid JSON"
    ELSE "Gemini returned invalid JSON"

\* The JSON Repair & Parser of each operation.
ParseText(o, text) ==
    IF o = "daily_planner" THEN ParseResponse(text)
    ELSE ParseCleaned(text, InvalidJsonDetail(o))

\* The Field Mapper, Response Validator and Summary Aggregator of each
\* operation.
Respond(o, value) ==
    CASE o = "calc_co2" -> CalcValidate(value)
      [] o = "daily_planner" -> PlannerRespond(value)
      [] o = "identify_food_image" -> MapToResponse(value)

\* How a stage's outcome r moves the request: on to the next stage, or to
\* FAILED with what was raised; the last stage's value is the response.
Outcome(r, next) ==
    /\ stage' = IF r.ok THEN next ELSE "FAILED"
    /\ failedAt' = IF r.ok THEN failedAt ELSE stage
    /\ result' = IF r.ok /\ next # "DONE" THEN result ELSE r

Fetched(r) ==
    /\ Outcome(r, "IMAGE_FETCHED")
    /\ image' = IF r.ok THEN r.val ELSE image

\* classify_image: image_bytes, mime_type = await cls._fetch_image(...)
FetchImageStep ==
    /\ op = "identify_food_image"
    /\ stage = "START"
    /\ fetches' = IF payload.imageUrl = "" THEN fetches ELSE fetches + 1
    /\ \E reply \in HttpReplies : Fetched(FetchImage(payload.imageUrl, reply))
    /\ UNCHANGED <<op, api_key, payload, modelCalls, response, raw_text, parsed, configured, requests>>

\* model = _get_model()
ConfigCheck ==
    /\ stage = ConfigStage(op)
    /\ \E initRaises \in BOOLEAN :
         Outcome(GetModel(api_key, initRaises, InitFailedDetail(op)), "CONFIGURED")
    /\ configured' = ConfiguredBy(api_key, 0, configured)
    /\ UNCHANGED <<op, api_key, payload, fetches, modelCalls, image, response, raw_text, parsed, requests>>

\* The call as the library makes it: model.generate_content builds its client
\* from the key configured process-wide at that moment, and raises when there
\* is none.
Answered(reply, config) ==
    IF Truthy(config.key) THEN reply ELSE [reply EXCEPT !.raises = TRUE]

\* What generate_content came to: the response, or the stage and the answer
\* its exception handler leaves.
Called(reply, after) ==
    /\ stage' = IF reply.raises THEN after ELSE "MODEL_CALL"
    /\ failedAt' = IF reply.raises /\ after = "FAILED" THEN stage ELSE failedAt
    /\ result' = IF reply.raises /\ after = "FAILED"
                 THEN HTTPException(502, ContactFailedDetail(op))
                 ELSE result
    /\ response' = IF reply.raises THEN response ELSE reply

\* response = await asyncio.to_thread(model.generate_content, ...)
CallModel ==
    /\ stage = "CONFIGURED"
    /\ modelCalls < MaxCalls
    /\ modelCalls' = modelCalls + 1
    /\ \E reply \in ModelReplies(op) :
         Called(Answered(reply, configured), AfterCallRaised(op))
    /\ UNCHANGED <<op, api_key, payload, fetches, image, raw_text, parsed, configured, requests>>

Extracted(r) ==
    /\ Outcome(r, "TEXT_EXTRACTED")
    /\ raw_text' = IF r.ok THEN r.val ELSE raw_text

\* raw_text = _extract_text(response)
ExtractTextStep ==
    /\ stage = "MODEL_CALL"
    /\ Extracted(ExtractText(response, TextFailedDetail(op)))
    /\ UNCHANGED <<op, api_key, payload, fetches, modelCalls, image, response, parsed, configured, requests>>

Parsed(r) ==
    /\ Outcome(r, "JSON_PARSED")
    /\ parsed' = IF r.ok THEN r.val ELSE parsed

\* parsed = json.loads(clean), or parsed = cls._parse_response(raw_text)
ParseStep ==
    /\ stage = "TEXT_EXTRACTED"
    /\ Parsed(ParseText(op, raw_text))
    /\ UNCHANGED <<op, api_key, payload, fetches, modelCalls, image, response, raw_text, configured, requests>>

\* The mapping and validation of the parsed value, and the return.
RespondStep ==
    /\ stage = "JSON_PARSED"
    /\ Outcome(Respond(op, parsed), "DONE")
    /\ UNCHANGED <<op, api_key, payload, fetches, modelCalls, image, response, raw_text, parsed, configured, requests>>

Next ==
    \/ FetchImageStep
    \/ ConfigCheck
    \/ CallModel
    \/ ExtractTextStep
    \/ ParseStep
    \/ RespondStep

Spec == Init /\ [][Next]_vars

\* ------------------------------------------- several requests in flight

\* Requests in flight together.
MaxRequests == 2

Requests == 1..MaxRequests

\* The request bodies of the requests in flight.
FlightPayloads(o) ==
    IF o = "identify_food_image" THEN Payloads(o) ELSE {[activities |-> 1]}

\* What the GET of a request in flight comes to.
FlightHttpReplies ==
    {reply \in HttpReplies :
        \/ reply.raises
        \/ /\ reply.status_code = 200
           /\ reply.content = "bytes"
           /\ reply.content_type \in {"image/png", "text/html"}}

\* The texts the model answers the requests in flight with.
FlightTexts(o) ==
    CASE o = "calc_co2" ->
            {"{\"activities\":[{\"id\":\"a\",\"co2\":1.5}],\"totalCo2\":1.5}",
             "{\"activities\":[3],\"totalCo2\":1}",
             "Sorry, I cannot help.",
             "[[[[[["}
      [] o = "daily_planner" ->
            {"{\"analysis\":[{\"original\":\"car\",\"reduced\":1.0}]}",
             "{\"analysis\":[{\"original\":5,\"reduced\":1}]}",
             "[]",
             "Sorry, I cannot help."}
      [] o = "identify_food_image" ->
            {"{\"name\":\"rice\",\"confidence\":0.9}",
             "{\"confidence\":1}",
             "{\"name\":5}",
             "[1]",
             "{name: rice}",
             "[[[[[["}

\* What generate_content comes to for a request in flight.
FlightReplies(o) ==
    {reply \in ModelReplies(o) :
        \/ reply.raises
        \/ reply.textRaises
        \/ reply.fence = "none" /\ reply.doc \in FlightTexts(o)}

\* No GET made yet.
NoReply == [raises |-> FALSE, status_code |-> 0, content_type |-> "", content |-> ""]

\* A request as it arrives.
NewRequest(o, p) ==
    [op |-> o, payload |-> p, stage |-> "START", failedAt |-> "", fetches |-> 0,
     modelCalls |-> 0, image |-> NoImage, fetched |-> NoReply, initRaised |-> FALSE,
     answer |-> NoResponse, clientBy |-> 0, response |-> NoResponse, raw_text |-> "",
     parsed |-> PyNone, result |-> Pending]

\* How a stage's outcome moves request r.
Moved(r, out, next) ==
    [r EXCEPT !.stage = IF out.ok THEN next ELSE "FAILED",
              !.failedAt = IF out.ok THEN @ ELSE r.stage,
              !.result = IF out.ok /\ next # "DONE" THEN @ ELSE out]

\* The variables of the one request followed alone.
alone == <<op, payload, stage, failedAt, fetches, modelCalls, image, response, raw_text,
           parsed, result>>

InitConcurrent ==
    /\ api_key \in ApiKeys
    /\ requests \in [Requests -> UNION {{NewRequest(o, p) : p \in FlightPayloads(o)} : o \in Ops}]
    /\ configured = NotConfigured
    /\ op = "calc_co2"
    /\ payload = [activities |-> 0]
    /\ stage = "START"
    /\ failedAt = ""
    /\ fetches = 0
    /\ modelCalls = 0
    /\ image = NoImage
    /\ response = NoResponse
    /\ raw_text = ""
    /\ parsed = PyNone
    /\ result = Pending

AfterFetch(r, reply, out) ==
    Moved([r EXCEPT !.fetched = reply,
                    !.fetches = IF r.payload.imageUrl = "" THEN @ ELSE @ + 1,
                    !.image = IF out.ok THEN out.val ELSE @],
          out, "IMAGE_FETCHED")

\* classify_image of request i: _fetch_image
FetchImageOf(i) ==
    /\ requests[i].op = "identify_food_image"
    /\ requests[i].stage = "START"
    /\ \E reply \in FlightHttpReplies :
         requests' = [requests EXCEPT ![i] =
                        AfterFetch(@, reply, FetchImage(@.payload.imageUrl, reply))]
    /\ UNCHANGED <<api_key, configured, alone>>

\* Request i: model = _get_model()
ConfigCheckOf(i) ==
    /\ requests[i].stage = ConfigStage(requests[i].op)
    /\ \E initRaises \in BOOLEAN :
         requests' = [requests EXCEPT ![i] =
                        Moved([@ EXCEPT !.initRaised = initRaises],
                              GetModel(api_key, initRaises, InitFailedDetail(@.op)),
                              "CONFIGURED")]
    /\ configured' = ConfiguredBy(api_key, i, configured)
    /\ UNCHANGED <<api_key, alone>>

\* Request r after its call: reply is what the model holds for it, got what the
\* call came to, by the request whose configure() the client was built from.
AfterCall(r, reply, got, by, after) ==
    [r EXCEPT !.modelCalls = @ + 1,
              !.answer = reply,
              !.clientBy = by,
              !.response = IF got.raises THEN @ ELSE got,
              !.stage = IF got.raises THEN after ELSE "MODEL_CALL",
              !.failedAt = IF got.raises /\ after = "FAILED" THEN r.stage ELSE @,
              !.result = IF got.raises /\ after = "FAILED"
                         THEN HTTPException(502, ContactFailedDetail(r.op))
                         ELSE @]

\* Request i: response = await asyncio.to_thread(model.generate_content, ...)
CallModelOf(i) ==
    /\ requests[i].stage = "CONFIGURED"
    /\ requests[i].modelCalls < MaxCalls
    /\ \E reply \in FlightReplies(requests[i].op) :
         requests' = [requests EXCEPT ![i] =
                        AfterCall(@, reply, Answered(reply, configured), configured.by,
                                  AfterCallRaised(@.op))]
    /\ UNCHANGED <<api_key, configured, alone>>

AfterExtract(r, out) ==
    Moved([r EXCEPT !.raw_text = IF out.ok THEN out.val ELSE @], out, "TEXT_EXTRACTED")

\* Request i: raw_text = _extract_text(response)
ExtractTextOf(i) ==
    /\ requests[i].stage = "MODEL_CALL"
    /\ requests' = [requests EXCEPT ![i] =
                      AfterExtract(@, ExtractText(@.response, TextFailedDetail(@.op)))]
    /\ UNCHANGED <<api_key, configured, alone>>

AfterParse(r, out) ==
    Moved([r EXCEPT !.parsed = IF out.ok THEN out.val ELSE @], out, "JSON_PARSED")

\* Request i: the parsing of its text
ParseOf(i) ==
    /\ requests[i].stage = "TEXT_EXTRACTED"
    /\ requests' = [requests EXCEPT ![i] = AfterParse(@, ParseText(@.op, @.raw_text))]
    /\ UNCHANGED <<api_key, configured, alone>>

\* Request i: the mapping and validation of its parsed value, and the return
RespondOf(i) ==
    /\ requests[i].stage = "JSON_PARSED"
    /\ requests' = [requests EXCEPT ![i] = Moved(@, Respond(@.op, @.parsed), "DONE")]
    /\ UNCHANGED <<api_key, configured, alone>>

\* The event loop runs one step of one request at a time, in any order.
NextConcurrent ==
    \E i \in Requests :
        \/ FetchImageOf(i)
        \/ ConfigCheckOf(i)
        \/ CallModelOf(i)
        \/ ExtractTextOf(i)
        \/ ParseOf(i)
        \/ RespondOf(i)

SpecConcurrent == InitConcurrent /\ [][NextConcurrent]_vars

\* ================================================================ claims

\* The parser has run on the text of the response.
ParserRan ==
    \/ stage \in {"JSON_PARSED", "DONE"}
    \/ stage = "FAILED" /\ failedAt \in {"TEXT_EXTRACTED", "JSON_PARSED"}

\* The mapper and validator have run on the parsed value.
MapperRan ==
    \/ stage = "DONE"
    \/ stage = "FAILED" /\ failedAt = "JSON_PARSED"

\* The 502 details of a response that does not fit the schema.
SchemaMismatchDetails ==
    {"Gemini JSON schema mismatch", "Gemini response invalid",
     "Gemini Vision response missing 'name'", "Invalid Gemini Vision response format"}

\* C1: for each operation, a JSON document wrapped in a code fence parses to
\* exactly the structure the document alone parses to, also when a string
\* inside the document holds the fence characters.
FencedParsesAsBare ==
    (/\ ParserRan
     /\ response.fence # "none"
     /\ JsonLoads(response.doc).ok)
    => /\ ~(stage = "FAILED" /\ failedAt = "TEXT_EXTRACTED")
       /\ ParseText(op, response.doc).ok
       /\ parsed = ParseText(op, response.doc).val

\* An array that holds an entry that is no object.
HasNonObjectEntry(raw) ==
    raw.t = "list" /\ \E n \in 1..Len(raw.items) : raw.items[n].t # "dict"

\* A field that is there with a value that is no string.
NonString(d, key) ==
    HasKey(d, key) /\ Truthy(Get(d, key)) /\ Get(d, key).t # "str"

\* The parsed value cannot be turned into a schema-valid response: the top
\* level is no object, an entry of "analysis" or "travel_analysis" is no
\* object, a required field is missing after mapping, or a string field
\* holds a value of another type.
SchemaUnfit ==
    \/ parsed.t # "dict"
    \/ /\ op = "daily_planner"
       /\ \/ HasNonObjectEntry(Get(parsed, "analysis"))
          \/ HasNonObjectEntry(Get(parsed, "travel_analysis"))
    \/ /\ op = "calc_co2"
       /\ \/ ~HasKey(parsed, "activities")
          \/ ~HasKey(parsed, "totalCo2")
          \/ HasNonObjectEntry(Get(parsed, "activities"))
    \/ /\ op = "identify_food_image"
       /\ \/ ~HasKey(parsed, "name") /\ ~HasKey(parsed, "food")
          \/ NonString(parsed, "name")
          \/ NonString(parsed, "explanation")

\* C2: when the text parses as JSON but the parsed value cannot be turned into
\* a schema-valid response, the request fails with the 502 schema-mismatch
\* classification: no unclassified server error, no response.
UnfitIsSchemaMismatch ==
    (MapperRan /\ SchemaUnfit)
    => /\ stage = "FAILED"
       /\ result.status = 502
       /\ result.detail \in SchemaMismatchDetails

\* C3: a text whose JSON parsing fails both raw and after fence-stripping ends
\* the request with the 502 invalid-JSON classification, never with a generic
\* server error.
UnparsableIsInvalidJson ==
    (/\ ParserRan
     /\ ~JsonLoads(raw_text).ok
     /\ ~JsonLoads(CleanJson(raw_text)).ok)
    => /\ stage = "FAILED"
       /\ failedAt = "TEXT_EXTRACTED"
       /\ result.status = 502
       /\ result.detail = InvalidJsonDetail(op)

\* The numeric fields the planner's mapper converts.
PlannerNumericFields ==
    {"current_co2", "alternative_co2", "distance_km", "recommended_co2", "reduced"}

\* The conversion of every numeric field of the object entries of an array
\* returns.
EntriesConvert(raw) ==
    raw.t = "list" =>
        \A n \in 1..Len(raw.items) :
            raw.items[n].t = "dict" =>
                \A f \in PlannerNumericFields : ToFloat(Get(raw.items[n], f)).ok

\* C4: in the Field Mapper the conversion of a numeric field never raises,
\* whatever JSON value the field holds: what cannot be converted becomes 0.0.
NumericConversionNeverRaises ==
    (MapperRan /\ parsed.t = "dict")
    => /\ op = "daily_planner" =>
            /\ EntriesConvert(Get(parsed, "analysis"))
            /\ EntriesConvert(Get(parsed, "travel_analysis"))
       /\ op = "identify_food_image" => FoodConfidence(parsed).ok

\* C5: every numeric field of every response returned is a finite float.
ReturnedNumbersFinite ==
    stage = "DONE" =>
        CASE op = "calc_co2" ->
                /\ IsFinite(result.val.totalCo2)
                /\ \A n \in 1..Len(result.val.activities) :
                       IsFinite(result.val.activities[n].co2)
          [] op = "daily_planner" ->
                /\ IsFinite(result.val.summary_reduction)
                /\ \A n \in 1..Len(result.val.analysis) :
                       /\ IsFinite(result.val.analysis[n].current_co2)
                       /\ IsFinite(result.val.analysis[n].alternative_co2)
                       /\ IsFinite(result.val.analysis[n].reduced)
                /\ \A n \in 1..Len(result.val.travel_analysis) :
                       /\ IsFinite(result.val.travel_analysis[n].distance_km)
                       /\ IsFinite(result.val.travel_analysis[n].current_co2)
                       /\ IsFinite(result.val.travel_analysis[n].recommended_co2)
                       /\ IsFinite(result.val.travel_analysis[n].reduced)
          [] op = "identify_food_image" ->
                IsFinite(result.val.item.confidence)

\* The sum of the co2 of the activities n.. of a response.
RECURSIVE SumCo2(_, _, _)
SumCo2(activities, n, total) ==
    IF n > Len(activities) THEN total
    ELSE SumCo2(activities, n + 1, Fadd(total, activities[n].co2))

\* C6: a calc_co2 request whose model response is valid JSON with a
\* schema-conformant "activities" list succeeds, and its totalCo2 is the sum
\* of the co2 of the returned activities, whether or not the model gave a
\* total.
TotalIsSumOfCo2 ==
    (/\ op = "calc_co2"
     /\ MapperRan
     /\ parsed.t = "dict"
     /\ ValidActivities(Get(parsed, "activities")))
    => /\ stage = "DONE"
       /\ result.val.totalCo2 = SumCo2(result.val.activities, 1, Fin(0))

\* The model's "summary_reduction" is there, not null, and float() takes it.
SummaryUsable ==
    /\ Get(parsed, "summary_reduction").t # "None"
    /\ PyFloatOf(Get(parsed, "summary_reduction")).ok

ConfigCheckComesFirst ==
    ~Truthy(api_key)
    => /\ fetches = 0
       /\ modelCalls = 0
       /\ stage = "FAILED" =>
            /\ result.status = 500
            /\ result.detail = "GEMINI_API_KEY is not configured"

\* The order of the stages.
StageRank(s) ==
    CASE s = "START" -> 0
      [] s = "IMAGE_FETCHED" -> 1
      [] s = "CONFIGURED" -> 2
      [] s = "MODEL_CALL" -> 3
      [] s = "TEXT_EXTRACTED" -> 4
      [] s = "JSON_PARSED" -> 5
      [] s = "DONE" -> 6
      [] s = "FAILED" -> 7

\* C9: the model is called at most once per request and no stage is entered
\* again: every step moves the request to a later stage, FAILED being the
\* last, and a model call that raised goes straight to FAILED with a 502.
SingleAttemptNoRetry ==
    [][/\ modelCalls' <= 1
       /\ StageRank(stage') > StageRank(stage)
       /\ (modelCalls' # modelCalls /\ stage' # "MODEL_CALL")
          => /\ stage' = "FAILED"
             /\ result'.status = 502
             /\ result'.detail = ContactFailedDetail(op)]_vars

\* The one model call of a request raised and the request failed with the 502.
SingleAttemptNoRetryWitness ==
    /\ stage = "FAILED"
    /\ failedAt = "CONFIGURED"
    /\ modelCalls = 1
    /\ result.status = 502

\* C10: in identify_food_image every failure of the image fetch (empty
\* imageUrl, download raising, status >= 400, content type not image/, empty
\* body) ends the request with a 400 and the model is never called; a request
\* that got past the fetch has a URL, an image content type and a body.
FetchFailuresAreClientErrors ==
    op = "identify_food_image"
    => /\ (stage = "FAILED" /\ failedAt = "START")
          => /\ result.status = 400
             /\ modelCalls = 0
             /\ result.detail \in {"imageUrl is required",
                                   "Failed to download image from URL",
                                   "Image URL returned error",
                                   "URL is not an image",
                                   "Empty image content"}
       /\ (stage # "START" /\ failedAt # "START")
          => /\ payload.imageUrl # ""
             /\ image.data # ""
             /\ StartsWith(image.mime_type, "image/")
       /\ modelCalls > 0 => failedAt # "START"

\* A fetch that found no image behind the URL ended the request with a 400
\* and no model call.
FetchFailuresAreClientErrorsWitness ==
    /\ op = "identify_food_image"
    /\ stage = "FAILED"
    /\ failedAt = "START"
    /\ result.detail = "URL is not an image"
    /\ Truthy(api_key)
    /\ modelCalls = 0

\* The 502 details the validators raise.
ValidatorDetails ==
    {"Gemini JSON schema mismatch", "Gemini response invalid",
     "Invalid Gemini Vision response format"}

\* The stage a failed request failed in, the validation told from the mapping
\* before it.
FailurePoint(r) ==
    IF /\ r.failedAt = "JSON_PARSED"
       /\ r.result.exc = "HTTPException"
       /\ r.result.detail \in ValidatorDetails
    THEN "FIELDS_MAPPED"
    ELSE r.failedAt

\* C11: the error payload depends on the stage the request failed in alone:
\* two requests of one operation that fail in the same stage on different
\* model texts get the same status code and the same detail, and the detail
\* holds nothing of the text.
PayloadDependsOnStageOnly ==
    \A i, j \in Requests :
        (/\ requests[i].op = requests[j].op
         /\ requests[i].stage = "FAILED"
         /\ requests[j].stage = "FAILED"
         /\ FailurePoint(requests[i]) = FailurePoint(requests[j])
         /\ FailurePoint(requests[i]) \in {"TEXT_EXTRACTED", "JSON_PARSED", "FIELDS_MAPPED"}
         /\ requests[i].raw_text # requests[j].raw_text)
        => /\ requests[i].result.status = requests[j].result.status
           /\ requests[i].result.detail = requests[j].result.detail
           /\ ~Contains(requests[i].result.detail, requests[i].raw_text)

\* A request run alone, from the call on: the model's answer, its text, the
\* parsing, the mapping.
AloneResponded(r, out) ==
    IF ~out.ok THEN out ELSE Respond(r.op, out.val)

AloneParsed(r, text) ==
    IF ~text.ok THEN text ELSE AloneResponded(r, ParseText(r.op, text.val))

AloneCalled(r) ==
    IF r.answer.raises THEN HTTPException(502, ContactFailedDetail(r.op))
    ELSE AloneParsed(r, ExtractText(r.answer, TextFailedDetail(r.op)))

AloneConfigured(r, out) ==
    IF ~out.ok THEN out ELSE AloneCalled(r)

AloneFetched(r, key, out) ==
    IF ~out.ok THEN out
    ELSE AloneConfigured(r, GetModel(key, r.initRaised, InitFailedDetail(r.op)))

\* The outcome of request r had it run alone with its payload, the
\* configuration, and what its GET, its client set-up and the model came to.
Alone(r, key) ==
    IF r.op = "identify_food_image"
    THEN AloneFetched(r, key, FetchImage(r.payload.imageUrl, r.fetched))
    ELSE AloneConfigured(r, GetModel(key, r.initRaised, InitFailedDetail(r.op)))

\* C12: requests in flight together are independent: each ends as it would
\* have alone with the same payload, configuration and model answer, and none
\* reads shared state another request wrote.
RequestsAreIndependent ==
    \A i \in Requests :
        /\ requests[i].stage \in {"DONE", "FAILED"}
           => requests[i].result = Alone(requests[i], api_key)
        /\ requests[i].modelCalls > 0 => requests[i].clientBy = i

\* The entries of an array of the parsed value the planner returned entries
\* for.
EntryItems(raw) ==
    IF raw.t = "list" THEN raw.items ELSE <<>>

\* The value under the primary key if the key is there, else under the alias
\* key ("" for a field without one) if that is there, else the zero value.
ByPresence(item, key, alias, zero) ==
    IF HasKey(item, key) THEN Get(item, key)
    ELSE IF alias # "" /\ HasKey(item, alias) THEN Get(item, alias)
    ELSE zero

\* A numeric field: the float of the value under its key, 0.0 without one.
NumberByPresence(item, key) ==
    IF HasKey(item, key) THEN ToFloat(Get(item, key)).val ELSE Fin(0)

\* C13 as stated: every field of a mapped planner entry is the value under
\* its primary key if that key is present, else the value under its alias key
\* ("activity" for original, "recommended" for alternative, "mode" for
\* current_mode), else the zero value: the empty string for every text field,
\* 0.0 for every numeric field.
MappedByPresence ==
    (op = "daily_planner" /\ stage = "DONE")
    => /\ \A n \in 1..Len(result.val.analysis) :
            /\ PyStr(result.val.analysis[n].original) =
                   ByPresence(EntryItems(Get(parsed, "analysis"))[n],
                              "original", "activity", PyStr(""))
            /\ PyStr(result.val.analysis[n].alternative) =
                   ByPresence(EntryItems(Get(parsed, "analysis"))[n],
                              "alternative", "recommended", PyStr(""))
            /\ \A f \in {"current_co2", "alternative_co2", "reduced"} :
                   result.val.analysis[n][f] =
                       NumberByPresence(EntryItems(Get(parsed, "analysis"))[n], f)
       /\ \A n \in 1..Len(result.val.travel_analysis) :
            /\ PyStr(result.val.travel_analysis[n].origin) =
                   ByPresence(EntryItems(Get(parsed, "travel_analysis"))[n],
                              "origin", "", PyStr(""))
            /\ PyStr(result.val.travel_analysis[n].destination) =
                   ByPresence(EntryItems(Get(parsed, "travel_analysis"))[n],
                              "destination", "", PyStr(""))
            /\ PyStr(result.val.travel_analysis[n].current_mode) =
                   ByPresence(EntryItems(Get(parsed, "travel_analysis"))[n],
                              "current_mode", "mode", PyStr(""))
            /\ PyStr(result.val.travel_analysis[n].recommended_mode) =
                   ByPresence(EntryItems(Get(parsed, "travel_analysis"))[n],
                              "recommended_mode", "", PyStr(""))
            /\ \A f \in {"distance_km", "current_co2", "recommended_co2", "reduced"} :
                   result.val.travel_analysis[n][f] =
                       NumberByPresence(EntryItems(Get(parsed, "travel_analysis"))[n], f)

\* The first of the values under the primary key and the alias key ("" for a
\* field without one) that is truthy, else the default.
FirstTruthy(item, key, alias, default) ==
    IF Truthy(Get(item, key)) THEN Get(item, key)
    ELSE IF alias # "" /\ Truthy(Get(item, alias)) THEN Get(item, alias)
    ELSE default

\* A numeric field: float() of the value under its key, 0.0 when the key is
\* missing or float() raises TypeError or ValueError.
NumberOrZero(item, key) ==
    IF PyFloatOf(Get(item, key)).ok THEN PyFloatOf(Get(item, key)).val ELSE Fin(0)

\* C13 as amended: in every response the planner returns, each text field of
\* an entry is the first truthy value among its primary key and its alias key
\* ("activity" for original, "recommended" for alternative, "mode" for
\* current_mode and for recommended_mode), else its default, which is "car"
\* for current_mode and the empty string for the others; each numeric field
\* is float() of the value under its key, 0.0 when that is missing or not
\* convertible.
MappedByTruthiness ==
    (op = "daily_planner" /\ stage = "DONE")
    => /\ Len(result.val.analysis) = Len(EntryItems(Get(parsed, "analysis")))
       /\ Len(result.val.travel_analysis) = Len(EntryItems(Get(parsed, "travel_analysis")))
       /\ \A n \in 1..Len(result.val.analysis) :
            /\ PyStr(result.val.analysis[n].original) =
                   FirstTruthy(EntryItems(Get(parsed, "analysis"))[n],
                               "original", "activity", PyStr(""))
            /\ PyStr(result.val.analysis[n].alternative) =
                   FirstTruthy(EntryItems(Get(parsed, "analysis"))[n],
                               "alternative", "recommended", PyStr(""))
            /\ \A f \in {"current_co2", "alternative_co2", "reduced"} :
                   result.val.analysis[n][f] =
                       NumberOrZero(EntryItems(Get(parsed, "analysis"))[n], f)
       /\ \A n \in 1..Len(result.val.travel_analysis) :
            /\ PyStr(result.val.travel_analysis[n].origin) =
                   FirstTruthy(EntryItems(Get(parsed, "travel_analysis"))[n],
                               "origin", "", PyStr(""))
            /\ PyStr(result.val.travel_analysis[n].destination) =
                   FirstTruthy(EntryItems(Get(parsed, "travel_analysis"))[n],
                               "destination", "", PyStr(""))
            /\ PyStr(result.val.travel_analysis[n].current_mode) =
                   FirstTruthy(EntryItems(Get(parsed, "travel_analysis"))[n],
                               "current_mode", "mode", PyStr("car"))
            /\ PyStr(result.val.travel_analysis[n].recommended_mode) =
                   FirstTruthy(EntryItems(Get(parsed, "travel_analysis"))[n],
                               "recommended_mode", "mode", PyStr(""))
            /\ \A f \in {"distance_km", "current_co2", "recommended_co2", "reduced"} :
                   result.val.travel_analysis[n][f] =
                       NumberOrZero(EntryItems(Get(parsed, "travel_analysis"))[n], f)

\* The planner returned a travel entry that names no mode, with current_mode
\* "car" and recommended_mode empty, and an analysis entry without
\* alternative.
MappedByTruthinessWitness ==
    /\ op = "daily_planner"
    /\ stage = "DONE"
    /\ Len(result.val.analysis) = 1
    /\ Len(result.val.travel_analysis) = 1
    /\ ~HasKey(EntryItems(Get(parsed, "travel_analysis"))[1], "current_mode")
    /\ ~HasKey(EntryItems(Get(parsed, "travel_analysis"))[1], "mode")
    /\ result.val.travel_analysis[1].current_mode = "car"
    /\ result.val.travel_analysis[1].recommended_mode = ""
    /\ result.val.analysis[1].alternative = ""
    /\ result.val.travel_analysis[1].distance_km = Fin(0)

\* What the parser of the request's own operation came to.
OwnParse ==
    IF stage = "FAILED" /\ failedAt = "TEXT_EXTRACTED" THEN result ELSE Done(parsed)

\* What the other parser comes to on the same raw text: the single-attempt
\* parser for a daily_planner request, the two-attempt parser for the others.
OtherParse ==
    IF op = "daily_planner" THEN ParseCleaned(raw_text, InvalidJsonDetail("calc_co2"))
    ELSE ParseResponse(raw_text)

InvalidJsonDetails ==
    {InvalidJsonDetail(o) : o \in Ops}

\* C14: on every raw model text the single-attempt parser of calc_co2 and
\* identify_food_image succeeds exactly when the two-attempt parser of
\* daily_planner succeeds, both then give the same parsed structure, and
\* otherwise both fail with the 502 invalid-JSON error.
ParsersAgree ==
    ParserRan
    => /\ OwnParse.ok = OtherParse.ok
       /\ OwnParse.ok => OwnParse.val = OtherParse.val
       /\ ~OwnParse.ok
          => /\ OwnParse.status = 502
             /\ OtherParse.status = 502
             /\ OwnParse.detail \in InvalidJsonDetails
             /\ OtherParse.detail \in InvalidJsonDetails

====
